---- MODULE Spec2Model ----
(***************************************************************************)
(* Model of the streaming session recorder of mp3_to_text.py               *)
(* (MP3ToTextConverter.transcribe_to_files, _transcribe_generator,         *)
(* is_hallucination, format_time, _remove_hallucination).                  *)
(*                                                                         *)
(* Text is a sequence of characters.  A character is a one-element string; *)
(* a Hangul syllable is written as its romanisation in capitals ("MEN" is  *)
(* one character).  The characters "|" and newline never occur inside a    *)
(* segment text here.  Times are whole seconds; the progress percentage is *)
(* computed in exact arithmetic.  A file is the sequence of what was       *)
(* written to it: lines for the time-indexed file and the run log, write   *)
(* chunks for the full-text file.  The elapsed wall-clock time printed in  *)
(* the footers is left out of the footer records.                          *)
(*                                                                         *)
(* The offline cleaner of fix_hallucination.py (main, parse_time_md_file,  *)
(* clean_entries and the functions it calls, write_cleaned_file) has its   *)
(* own specifications: CleanerSpec runs main on a file of a small disk,    *)
(* EntriesSpec applies clean_entries to an entry list and to its results,  *)
(* FilterSpec applies is_hallucination to one text.  Spec is the session.  *)
(*                                                                         *)
(* ToFileSpec is one call of MP3ToTextConverter.transcribe_to_file,        *)
(* PureSpec one call of format_time or of similarity, and WebSpec the      *)
(* run_conversion threads of web_ui.py writing the shared                  *)
(* conversion_state, one update_state call at a time.                      *)
(***************************************************************************)
EXTENDS Integers, Sequences, FiniteSets, TLC

\* ------------------------------------------------------------------ bounds
\* Number of segments the engine yields in one session, at most.
MaxSegs == 3

\* longest generated run of characters in an argument of is_hallucination
MaxRun == 12

\* longest entry list given to clean_entries
MaxEntries == 4

\* number of times clean_entries is applied to its own result
MaxPasses == 2

\* most rows of a file given to the offline cleaner
MaxRows == 4

\* invocations of the offline cleaner on one file
MaxRuns == 2

\* ------------------------------------------------------------ text helpers
Whitespace == {" ", "\t", "\n"}

Last(s) == s[Len(s)]

RECURSIVE lstrip(_)
lstrip(t) ==
  IF t = <<>> THEN <<>>
  ELSE IF Head(t) \in Whitespace THEN lstrip(Tail(t)) ELSE t

RECURSIVE rstrip(_)
rstrip(t) ==
  IF t = <<>> THEN <<>>
  ELSE IF Last(t) \in Whitespace THEN rstrip(SubSeq(t, 1, Len(t) - 1)) ELSE t

\* str.strip()
strip(t) == rstrip(lstrip(t))

\* index of the first whitespace character of t, Len(t)+1 when there is none
RECURSIVE FirstSpace(_, _)
FirstSpace(t, i) ==
  IF i > Len(t) THEN i
  ELSE IF t[i] \in Whitespace THEN i ELSE FirstSpace(t, i + 1)

\* str.split(): the maximal runs of non-whitespace characters
RECURSIVE split(_)
split(t) ==
  LET s == lstrip(t)
  IN IF s = <<>> THEN <<>>
     ELSE LET n == FirstSpace(s, 1)
          IN <<SubSeq(s, 1, n - 1)>> \o split(SubSeq(s, n, Len(s)))

\* ' '.join(words)
RECURSIVE join(_)
join(words) ==
  IF words = <<>> THEN <<>>
  ELSE IF Len(words) = 1 THEN words[1]
  ELSE words[1] \o <<" ">> \o join(Tail(words))

\* set(text)
CharSet(t) == {t[i] : i \in DOMAIN t}

\* pattern in text
Contains(pattern, t) ==
  \E i \in 1..(Len(t) - Len(pattern) + 1) :
     SubSeq(t, i, i + Len(pattern) - 1) = pattern

\* ------------------------------------------------------------- format_time
Digits == <<"0", "1", "2", "3", "4", "5", "6", "7", "8", "9">>

IsDigit(c) == \E d \in DOMAIN Digits : Digits[d] = c

\* decimal rendering of a natural number
RECURSIVE Str(_)
Str(n) == IF n < 10 THEN <<Digits[n + 1]>> ELSE Str(n \div 10) \o <<Digits[(n % 10) + 1]>>

\* the format {n:d}, without padding
Pad2Bare(n) == Str(n)

\* the format {n:02d}
Pad2(n) == IF n < 10 THEN <<"0">> \o Str(n) ELSE Str(n)

\* format_time without the hours branch
format_time_no_hours(seconds) ==
  IF seconds < 0 THEN <<"-", "-", ":", "-", "-">>
  ELSE Pad2((seconds % 3600) \div 60) \o <<":">> \o Pad2(seconds % 60)

format_time(seconds) ==
  IF seconds < 0 THEN <<"-", "-", ":", "-", "-">>
  ELSE LET hours == seconds \div 3600
           minutes == (seconds % 3600) \div 60
           secs == seconds % 60
       IN IF hours > 0
          THEN Str(hours) \o <<":">> \o Pad2(minutes) \o <<":">> \o Pad2(secs)
          ELSE Pad2(minutes) \o <<":">> \o Pad2(secs)

\* --------------------------------------------------------- is_hallucination
HALLUCINATION_PATTERNS == {
  <<"HAN", "GEUL", "JA", "MAK">>,
  <<"JA", "MAK", " ", "JE", "JAK">>,
  <<"JA", "MAK", " ", "b", "y">>,
  <<"SU", "GO", "HA", "SYEOT", "SEUP", "NI", "DA">>,
  <<"SI", "CHEONG", "HAE", "JU", "SYEO", "SEO", " ", "GAM", "SA", "HAP", "NI", "DA">>,
  <<"GU", "DOK", "GWA", " ", "JOH", "A", "YO">>,
  <<"YEONG", "SANG", " ", "PYEON", "JIP">>,
  <<"JE", "JAK", " ", "JI", "WON">>,
  <<"BEON", "YEOK", " ", ":">>,
  <<"SING", "KEU", " ", ":">>,
  <<"BAE", "GEUP", " ", ":">>,
  <<"HAN", "GEUL", " ", "JA", "MAK">>,
  <<"b", "y", " ", "HAN", "HYO", "JEONG">>,
  <<"HAN", "GEUL", "JA", "MAK", " ", "b", "y", " ", "HAN", "HYO", "JEONG">>,
  <<"A", "MEN">>,
  <<"I", " ", "SI", "GAK", " ", "SE", "GYE", "YEOT", "SEUP", "NI", "DA">>,
  <<"KKEUT", " ", "KKEUT">>,
  <<"DA", "EUM", " ", "YEONG", "SANG", "E", "SEO", " ", "MAN", "NA", "YO">>,
  <<"DA", "EUM", " ", "JU", "E", " ", "MAN", "NA", "YO">>,
  <<"DA", "EUM", " ", "SI", "GAN", "E", " ", "BOEP", "GET", "SEUP", "NI", "DA">> }

\* the length and the distinct characters taken after stripping
is_hallucination_stripped(text) ==
  \/ Len(strip(text)) = 0
  \/ (Len(strip(text)) > 10 /\ Cardinality(CharSet(strip(text))) < 5)
  \/ \E pattern \in HALLUCINATION_PATTERNS : Contains(pattern, text)

is_hallucination(text) ==
  \/ text = <<>>
  \/ Len(strip(text)) = 0
  \/ (Len(text) > 10 /\ Cardinality(CharSet(text)) < 5)
  \/ \E pattern \in HALLUCINATION_PATTERNS : Contains(pattern, text)

\* ------------------------------------------------------------------ files
\* One line (or write chunk) of a file.  seg is the position, in the engine's
\* sequence, of the segment the write was made for (0: none); it is not
\* content of the file.
Line(kind) == [kind |-> kind, ts |-> <<>>, text |-> <<>>, seg |-> 0, milestone |-> 0]

\* f"| {start_str} | {segment.text.strip()} |\n"
TimeRow(ts, text, seg) ==
  [kind |-> "row", ts |-> ts, text |-> text, seg |-> seg, milestone |-> 0]

\* the header written to the time-indexed file, split into lines
TimeHeader ==
  <<Line("title"), Line("blank"), Line("file"), Line("status"), Line("blank"),
    Line("rule"), Line("blank"), Line("thead"), Line("tsep")>>

\* the header written to the full-text file, one chunk per write
FullHeader == <<Line("title"), Line("file"), Line("status")>>

\* the block a session appends to the run log before transcribing
LogHeader(is_new_log) ==
  (IF is_new_log THEN <<Line("logtitle"), Line("blank")>> ELSE <<>>)
  \o <<Line("rule"), Line("blank"), Line("name"), Line("blank"), Line("thead"),
       Line("tsep"), Line("file"), Line("duration"), Line("start"), Line("vad")>>

\* "\n\n---\n(completion marker)" appended to the time-indexed file
TimeFooter == <<Line("blank"), Line("blank"), Line("rule"), Line("completed")>>

\* the completion marker written where the interruption marker belongs
CompletionInsteadOfInterruption == TimeFooter

\* "\n(interruption marker)\n" appended to the time-indexed file
TimeInterrupted == <<Line("blank"), Line("interrupted")>>

\* what an earlier run left in a file
OldContent == <<Line("old")>>

\* the lines of kind row of a file, in order
Rows(f) == SelectSeq(f, LAMBDA l : l.kind = "row")

\* the text chunks of the full-text file, in order
Chunks(f) == SelectSeq(f, LAMBDA l : l.kind = "text")

HasKind(f, kind) == \E i \in DOMAIN f : f[i].kind = kind

IsPrefix(s, t) == Len(s) <= Len(t) /\ SubSeq(t, 1, Len(s)) = s

\* a file opened with "w" where "a" is meant
WriteTruncating(f, lines) == lines

\* open(path, "a") ... f.write(...)
AppendTo(f, lines) == f \o lines

\* a file opened with "a" where "w" is meant
OpenForAppend(f, lines) == f \o lines

\* open(path, "w") ... f.write(...)
Overwrite(f, lines) == lines

\* ----------------------------------------------------------------- inputs
\* (start, end) of a segment, in seconds
SegTimes == {<<0, 5>>, <<20, 25>>, <<10, 60>>, <<3600, 3800>>}

\* " abc."
TxtSentence == <<" ", "a", "b", "c", ".">>
\* one syllable, as in a one-word answer
TxtShort == <<" ", "NE">>
\* " go go go up"
TxtStutter == <<" ", "g", "o", " ", "g", "o", " ", "g", "o", " ", "u", "p">>
\* a text holding a filler phrase
TxtFiller == <<" ", "A", "MEN", ".">>

TextPool == {TxtSentence, TxtShort, TxtStutter, TxtFiller}

\* get_audio_duration(audio_path): 0 when unknown
Durations == {0, 100}

NoSegment == [start |-> 0, end |-> 0, text |-> <<>>]

\* ------------------------------------------------------------------ state
VARIABLES
  pc,                        \* position in transcribe_to_files
  total_duration,            \* audio_duration / total_duration
  auto_clean_hallucination,  \* self.auto_clean_hallucination
  pulled,                    \* segments the engine has yielded so far
  segment,                   \* the segment last yielded by the engine
  info,                      \* "None" until the first accepted segment
  logged_progress,           \* set of milestones already logged
  segment_count,
  full_file, time_file, log_file,
  accepted,                  \* history: the segments the generator yielded
  cleaned_count,             \* result of _remove_hallucination (0: not run)
  exc                        \* the exception raised in the try block, or "None"

vars == <<pc, total_duration, auto_clean_hallucination, pulled, segment, info,
          logged_progress, segment_count, full_file, time_file, log_file,
          accepted, cleaned_count, exc>>

files == <<full_file, time_file, log_file>>

\* state of the offline cleaner (fix_hallucination.py), of repeated calls of
\* clean_entries and of one call of is_hallucination; a transcription session
\* leaves it alone
VARIABLES
  cpc,                   \* position in fix_hallucination.main
  args,                  \* the parsed command line: file, no_backup, threshold
  disk,                  \* path -> lines of the file at that path, or NoFile
  main_header_lines,     \* first result of parse_time_md_file
  main_entries,          \* second result of parse_time_md_file
  main_cleaned_entries,  \* result of clean_entries
  returned,              \* the value main returned, "None" while it runs
  runs,                  \* history: invocations of main so far
  originals,             \* history: what the file held before each rewrite
  disk_before,           \* history: the disk when main was called
  passes,                \* an entry list and the results of cleaning it again and again
  call_text,             \* the argument of is_hallucination
  verdict,               \* its result, "None" before the call
  output_file,           \* transcribe_to_file: lines of the file at output_path
  engine_runs,           \* transcribe_to_file: times the engine was asked to transcribe
  fn_call,               \* a call of format_time or similarity: fn, args, result
  conversion_state,      \* web_ui: the module-level dictionary
  threads                \* web_ui: the run_conversion threads started so far

cleaner_vars == <<cpc, args, disk, main_header_lines, main_entries,
                  main_cleaned_entries, returned, runs, originals, disk_before>>

to_file_vars == <<output_file, engine_runs>>

web_vars == <<conversion_state, threads>>

extra_vars == <<to_file_vars, fn_call, web_vars>>

offline_vars == <<cleaner_vars, passes, call_text, verdict, extra_vars>>

\* fix_hallucination.main is not running
CleanerIdle ==
  /\ cpc = "Idle"
  /\ args = [file |-> <<>>, no_backup |-> FALSE, threshold |-> 3]
  /\ disk = <<>>
  /\ main_header_lines = <<>>
  /\ main_entries = <<>>
  /\ main_cleaned_entries = <<>>
  /\ returned = "None"
  /\ runs = 0
  /\ originals = <<>>
  /\ disk_before = <<>>

\* no call of is_hallucination on its own
FilterIdle == call_text = <<>> /\ verdict = "None"

\* no call of transcribe_to_file
ToFileIdle == output_file = <<>> /\ engine_runs = 0

\* no call of format_time or similarity on its own
PureIdle == fn_call = [fn |-> "None"]

\* the web server is not running
WebIdle == conversion_state = [status |-> "None"] /\ threads = <<>>

ExtraIdle == ToFileIdle /\ PureIdle /\ WebIdle

OfflineIdle == CleanerIdle /\ passes = <<>> /\ FilterIdle /\ ExtraIdle

Init ==
  /\ pc = "Idle"
  /\ total_duration \in Durations
  /\ auto_clean_hallucination \in BOOLEAN
  /\ pulled = 0
  /\ segment = NoSegment
  /\ info = "None"
  /\ logged_progress = {}
  /\ segment_count = 0
  /\ \E prior \in BOOLEAN :
       /\ full_file = IF prior THEN OldContent ELSE <<>>
       /\ time_file = IF prior THEN OldContent ELSE <<>>
       /\ log_file = IF prior THEN OldContent ELSE <<>>
  /\ accepted = <<>>
  /\ cleaned_count = 0
  /\ exc = "None"
  /\ OfflineIdle

\* ----------------------------------------------------- transcribe_to_files
\* Start of a session: the run log gets its header block appended, the
\* full-text and time-indexed files are opened with "w" and get their headers.
Start ==
  /\ pc = "Idle"
  /\ log_file' = AppendTo(log_file, LogHeader(log_file = <<>>))
  /\ full_file' = Overwrite(full_file, FullHeader)
  /\ time_file' = Overwrite(time_file, TimeHeader)
  /\ pc' = "pull"
  /\ UNCHANGED offline_vars
  /\ UNCHANGED <<total_duration, auto_clean_hallucination, pulled, segment, info,
                 logged_progress, segment_count, accepted, cleaned_count, exc>>

\* a generator that filters nothing
GeneratorSkipsNothing(text) == FALSE

\* _transcribe_generator: "if self.is_hallucination(segment.text): continue"
GeneratorSkips(text) == is_hallucination(text)

\* The engine yields its next segment (end not below the previous end).  The
\* generator drops it or yields it to the loop of transcribe_to_files, which
\* counts it.
Pull ==
  /\ pc = "pull"
  /\ pulled < MaxSegs
  /\ \E tm \in SegTimes, text \in TextPool :
       /\ tm[2] >= segment.end
       /\ segment' = [start |-> tm[1], end |-> tm[2], text |-> text]
       /\ pulled' = pulled + 1
       /\ IF GeneratorSkips(text)
          THEN /\ pc' = "pull"
               /\ UNCHANGED <<segment_count, accepted>>
          ELSE /\ pc' = "record"
               /\ segment_count' = segment_count + 1
               /\ accepted' = Append(accepted,
                     [start |-> tm[1], end |-> tm[2], text |-> text, seg |-> pulled + 1])
  /\ UNCHANGED offline_vars
  /\ UNCHANGED <<total_duration, auto_clean_hallucination, info, logged_progress,
                 full_file, time_file, log_file, cleaned_count, exc>>

\* int(segment.end / total_duration * 100)
ProgressInt(end, total) == (end * 100) \div total

\* "| **progress** | {milestone}% ({format_time(segment.end)}/...) |\n"
ProgressRow(milestone, seg, n) ==
  [kind |-> "progress", ts |-> format_time(seg.end), text |-> <<>>, seg |-> n,
   milestone |-> milestone]

\* the milestone test without the memory of logged milestones
MilestoneDueNoMemo(milestone, progress_int, logged) == progress_int >= milestone

\* "if progress_int >= milestone and milestone not in logged_progress"
MilestoneDue(milestone, progress_int, logged) ==
  progress_int >= milestone /\ milestone \notin logged

\* "for milestone in range(10, 100, 10)": the set and the log after the loop
RECURSIVE LogMilestones(_, _, _, _, _, _)
LogMilestones(milestone, progress_int, logged, log, seg, n) ==
  IF milestone >= 100 THEN [logged_progress |-> logged, log_file |-> log]
  ELSE IF MilestoneDue(milestone, progress_int, logged)
       THEN LogMilestones(milestone + 10, progress_int, logged \cup {milestone},
                          AppendTo(log, <<ProgressRow(milestone, seg, n)>>), seg, n)
       ELSE LogMilestones(milestone + 10, progress_int, logged, log, seg, n)

\* For an accepted segment: the language line on the first one, then the
\* progress computation and the milestone loop when the duration is known.
Record ==
  /\ pc = "record"
  /\ LET log1 == IF info = "None"
                 THEN AppendTo(log_file, <<Line("language")>>)
                 ELSE log_file
         r == IF total_duration > 0
              THEN LogMilestones(10, ProgressInt(segment.end, total_duration),
                                 logged_progress, log1, segment, pulled)
              ELSE [logged_progress |-> logged_progress, log_file |-> log1]
     IN /\ log_file' = r.log_file
        /\ logged_progress' = r.logged_progress
  /\ info' = "info"
  /\ pc' = "full"
  /\ UNCHANGED offline_vars
  /\ UNCHANGED <<total_duration, auto_clean_hallucination, pulled, segment,
                 segment_count, full_file, time_file, accepted, cleaned_count, exc>>

\* the chunk appended to the full-text file for a segment text
FullChunk(text, n) ==
  LET text_chunk == strip(text)
  IN IF text_chunk = <<>> THEN <<>>
     ELSE IF Last(text_chunk) \in {".", "!", "?"}
          THEN <<[kind |-> "text", ts |-> <<>>, text |-> text_chunk \o <<"\n">>,
                  seg |-> n, milestone |-> 0]>>
          ELSE <<[kind |-> "text", ts |-> <<>>, text |-> text_chunk \o <<" ">>,
                  seg |-> n, milestone |-> 0]>>

AppendFull ==
  /\ pc = "full"
  /\ full_file' = AppendTo(full_file, FullChunk(segment.text, pulled))
  /\ pc' = "time"
  /\ UNCHANGED offline_vars
  /\ UNCHANGED <<total_duration, auto_clean_hallucination, pulled, segment, info,
                 logged_progress, segment_count, time_file, log_file, accepted,
                 cleaned_count, exc>>

\* the line appended to the time-indexed file for a segment
SegmentRow(seg, n) == TimeRow(format_time(seg.start), strip(seg.text), n)

AppendTime ==
  /\ pc = "time"
  /\ time_file' = AppendTo(time_file, <<SegmentRow(segment, pulled)>>)
  /\ pc' = "pull"
  /\ UNCHANGED offline_vars
  /\ UNCHANGED <<total_duration, auto_clean_hallucination, pulled, segment, info,
                 logged_progress, segment_count, full_file, log_file, accepted,
                 cleaned_count, exc>>

\* the positions inside the try block
TryBlock == {"pull", "record", "full", "time"}

\* a handler that catches every exception
CaughtAny(exc_raised) == TRUE

\* "except KeyboardInterrupt:"
Caught(exc_raised) == exc_raised = "KeyboardInterrupt"

\* An exception raised inside the try block: the handler appends the
\* interruption markers and returns the paths; any other exception leaves
\* transcribe_to_files.
Raise(exc_raised) ==
  /\ IF Caught(exc_raised)
     THEN /\ full_file' = AppendTo(full_file, <<Line("interrupted")>>)
          /\ time_file' = AppendTo(time_file, TimeInterrupted)
          /\ pc' = "Interrupted"
     ELSE /\ pc' = "Failed"
          /\ UNCHANGED <<full_file, time_file>>
  /\ exc' = exc_raised
  /\ UNCHANGED offline_vars
  /\ UNCHANGED <<total_duration, auto_clean_hallucination, pulled, segment, info,
                 logged_progress, segment_count, log_file, accepted, cleaned_count>>

\* Ctrl-C: may arrive at any position of the try block
KeyboardInterrupt == pc \in TryBlock /\ Raise("KeyboardInterrupt")

\* the engine (or the generator before its first yield) raises while pulled
EngineError == pc = "pull" /\ Raise("EngineError")

\* The engine's sequence is exhausted: the footers are appended to the run
\* log, the full-text file and the time-indexed file.
Finalize ==
  /\ pc = "pull"
  /\ log_file' = AppendTo(log_file, <<Line("elapsed"), Line("blank")>>)
  /\ full_file' = AppendTo(full_file, <<Line("completed")>>)
  /\ time_file' = AppendTo(time_file, TimeFooter)
  /\ pc' = IF auto_clean_hallucination THEN "clean" ELSE "Completed"
  /\ UNCHANGED offline_vars
  /\ UNCHANGED <<total_duration, auto_clean_hallucination, pulled, segment, info,
                 logged_progress, segment_count, accepted, cleaned_count, exc>>

\* ---------------------------------------------------- _remove_hallucination
\* re.match(r'\|\s*\d{2}:\d{2}', line): only a row starts with "| "; its
\* timestamp must begin with two digits, a colon and two digits
TableStartMatch(line) ==
  /\ line.kind = "row"
  /\ Len(line.ts) >= 5
  /\ IsDigit(line.ts[1]) /\ IsDigit(line.ts[2])
  /\ line.ts[3] = ":"
  /\ IsDigit(line.ts[4]) /\ IsDigit(line.ts[5])

\* re.match(r'\|\s*(\d{2}:\d{2})\s*\|\s*(.+?)\s*\|', line): after the five
\* characters only blanks may precede the next "|", and the content is not
\* empty
EntryMatch(line) ==
  /\ TableStartMatch(line)
  /\ Len(line.ts) = 5
  /\ strip(line.text) # <<>>

\* index of the first line matching the table-start pattern, 0 when none
RECURSIVE TableStart(_, _)
TableStart(lines, i) ==
  IF i > Len(lines) THEN 0
  ELSE IF TableStartMatch(lines[i]) THEN i ELSE TableStart(lines, i + 1)

\* {'time': match.group(1), 'content': match.group(2).strip()}
Entry(line) == [time |-> line.ts, content |-> strip(line.text), seg |-> line.seg]

RECURSIVE ParseEntries(_)
ParseEntries(lines) ==
  IF lines = <<>> THEN <<>>
  ELSE IF EntryMatch(Head(lines))
       THEN <<Entry(Head(lines))>> \o ParseEntries(Tail(lines))
       ELSE ParseEntries(Tail(lines))

\* first index j >= i with entries[j].content # content, Len+1 when none
RECURSIVE RunEnd(_, _, _)
RunEnd(entries, content, j) ==
  IF j <= Len(entries) /\ entries[j].content = content
  THEN RunEnd(entries, content, j + 1)
  ELSE j

\* first index m >= k with words[m] # word, Len+1 when none
RECURSIVE WordRunEnd(_, _, _)
WordRunEnd(words, word, m) ==
  IF m <= Len(words) /\ words[m] = word
  THEN WordRunEnd(words, word, m + 1)
  ELSE m

\* the word loop: a run of 3 or more equal words is kept once
RECURSIVE CleanWords(_, _)
CleanWords(words, k) ==
  IF k > Len(words) THEN <<>>
  ELSE LET m == WordRunEnd(words, words[k], k + 1)
           word_repeat == m - k
       IN IF word_repeat >= 3
          THEN <<words[k]>> \o CleanWords(words, m)
          ELSE <<words[k]>> \o CleanWords(words, k + 1)

\* "if repeat_count >= 3": the run of equal entries is collapsed
IsRepeatedRun(repeat_count) == repeat_count >= 3

\* "if len(cleaned_content.strip()) >= 3": the entry is kept
LongEnough(cleaned_content) == Len(strip(cleaned_content)) >= 3

\* the entry loop: [cleaned, removed_count]
RECURSIVE CleanEntries(_, _, _, _)
CleanEntries(entries, i, cleaned, removed_count) ==
  IF i > Len(entries) THEN [cleaned |-> cleaned, removed_count |-> removed_count]
  ELSE LET current_content == entries[i].content
           j == RunEnd(entries, current_content, i + 1)
           repeat_count == j - i
       IN IF IsRepeatedRun(repeat_count)
          THEN CleanEntries(entries, j, Append(cleaned, entries[i]),
                            removed_count + repeat_count - 1)
          ELSE LET cleaned_content == join(CleanWords(split(current_content), 1))
               IN IF LongEnough(cleaned_content)
                  THEN CleanEntries(entries, i + 1,
                         Append(cleaned, [entries[i] EXCEPT !.content = cleaned_content]),
                         removed_count)
                  ELSE CleanEntries(entries, i + 1, cleaned, removed_count + 1)

\* f"| {entry['time']} | {entry['content']} |\n" for each cleaned entry
RECURSIVE EntryRows(_)
EntryRows(cleaned) ==
  IF cleaned = <<>> THEN <<>>
  ELSE <<TimeRow(Head(cleaned).time, Head(cleaned).content, Head(cleaned).seg)>>
       \o EntryRows(Tail(cleaned))

\* the file rewritten whatever the count
RewriteAlways(removed_count) == removed_count >= 0

\* "if removed_count > 0": the file is rewritten
RewriteNeeded(removed_count) == removed_count > 0

\* _remove_hallucination(time_file): [file: the file afterwards,
\* removed_count: the value returned]
remove_hallucination(lines) ==
  LET table_start == TableStart(lines, 1)
  IN IF table_start = 0 THEN [file |-> lines, removed_count |-> 0]
     ELSE LET header_lines == SubSeq(lines, 1, table_start - 1)
              entries == ParseEntries(SubSeq(lines, table_start, Len(lines)))
          IN IF entries = <<>> THEN [file |-> lines, removed_count |-> 0]
             ELSE LET r == CleanEntries(entries, 1, <<>>, 0)
                  IN IF RewriteNeeded(r.removed_count)
                     THEN [file |-> Overwrite(lines, header_lines \o EntryRows(r.cleaned)),
                           removed_count |-> r.removed_count]
                     ELSE [file |-> lines, removed_count |-> r.removed_count]

\* "if self.auto_clean_hallucination:" after the footers, then the return
AutoClean ==
  /\ pc = "clean"
  /\ LET r == remove_hallucination(time_file)
     IN /\ time_file' = r.file
        /\ cleaned_count' = r.removed_count
  /\ pc' = "Completed"
  /\ UNCHANGED offline_vars
  /\ UNCHANGED <<total_duration, auto_clean_hallucination, pulled, segment, info,
                 logged_progress, segment_count, full_file, log_file, accepted, exc>>

Next ==
  \/ Start
  \/ Pull
  \/ Record
  \/ AppendFull
  \/ AppendTime
  \/ KeyboardInterrupt
  \/ EngineError
  \/ Finalize
  \/ AutoClean

Spec == Init /\ [][Next]_vars

\* ============================================================== properties
\* the segments behind the rows of a file, as positions in the engine's sequence
SegsOf(lines) == {lines[i].seg : i \in DOMAIN lines}

AcceptedSegs == {accepted[i].seg : i \in DOMAIN accepted}

\* value of a digit character
DigitVal(c) == (CHOOSE d \in DOMAIN Digits : Digits[d] = c) - 1

\* seconds denoted by a rendered MM:SS or H:MM:SS timestamp
RECURSIVE TsFields(_, _, _)
TsFields(ts, cur, fields) ==
  IF ts = <<>> THEN Append(fields, cur)
  ELSE IF Head(ts) = ":" THEN TsFields(Tail(ts), 0, Append(fields, cur))
  ELSE TsFields(Tail(ts), cur * 10 + DigitVal(Head(ts)), fields)

TsSeconds(ts) ==
  LET f == TsFields(ts, 0, <<>>)
  IN IF Len(f) = 3 THEN f[1] * 3600 + f[2] * 60 + f[3] ELSE f[1] * 60 + f[2]

\* C1: a segment rejected by is_hallucination is never written to the
\* time-indexed file, the full-text file or the run log and is not counted:
\* every accepted segment passes the filter, segment_count counts exactly the
\* accepted ones, every row, text chunk and log line written for a segment
\* belongs to an accepted one, and the step in which the engine yields a
\* rejected segment changes no file and not segment_count.
C1_State ==
  /\ \A i \in DOMAIN accepted : ~is_hallucination(accepted[i].text)
  /\ segment_count = Len(accepted)
  /\ SegsOf(Rows(time_file)) \subseteq AcceptedSegs
  /\ SegsOf(Chunks(full_file)) \subseteq AcceptedSegs
  /\ SegsOf(log_file) \subseteq AcceptedSegs \cup {0}

C1_Step ==
  (pulled' = pulled + 1 /\ is_hallucination(segment'.text))
     => (UNCHANGED files /\ segment_count' = segment_count)

C1_RejectedNeverRecorded == [](C1_State) /\ [][C1_Step]_vars

\* a rejected segment came between two accepted ones and the session completed
C1_Witness ==
  /\ pc = "Completed"
  /\ pulled = 3
  /\ AcceptedSegs = {1, 3}
  /\ Len(Rows(time_file)) = 2

\* C2 (as stated): a row appended to the time-indexed file is present,
\* unchanged, in every later state of the file up to the return.
C2_Original ==
  [][\A i \in DOMAIN time_file :
        (pc # "Idle" /\ time_file[i].kind = "row")
           => \E j \in DOMAIN time_file' : time_file'[j] = time_file[i]]_vars

\* C2 (amended): every state of the time-indexed file extends the previous one
\* from the header up to the auto-clean pass; only that pass rewrites the file.
C2_AppendOnlyUntilClean ==
  [][pc \notin {"Idle", "clean"} => IsPrefix(time_file, time_file')]_vars

\* two rows were appended and the session returned with the rows in place
C2_Witness ==
  /\ pc = "Completed"
  /\ auto_clean_hallucination
  /\ cleaned_count = 0
  /\ Len(Rows(time_file)) >= 2

\* the rows of the time-indexed file are those of the accepted segments, one
\* each, in acceptance order
RowsMatchAccepted ==
  LET rows == Rows(time_file)
  IN /\ Len(rows) = Len(accepted)
     /\ Len(rows) = segment_count
     /\ \A i \in DOMAIN rows :
          /\ rows[i].seg = accepted[i].seg
          /\ rows[i].ts = format_time(accepted[i].start)
          /\ rows[i].text = strip(accepted[i].text)

\* C3 (as stated): when transcribe_to_files returns after normal exhaustion
\* the time-indexed file holds exactly one row per accepted segment, in
\* acceptance order.
C3_Original == pc = "Completed" => RowsMatchAccepted

\* C3 (amended): after normal exhaustion the time-indexed file holds exactly
\* one row per accepted segment, in acceptance order, when the footers have
\* been written, and still does at the return if the auto-clean pass is off or
\* removed nothing; if the pass removed entries the returned file has fewer
\* rows than segment_count.
C3_RowsPerAccepted ==
  /\ (pc = "clean" \/ (pc = "Completed" /\ cleaned_count = 0)) => RowsMatchAccepted
  /\ (pc = "Completed" /\ cleaned_count > 0) => Len(Rows(time_file)) < segment_count

\* two segments accepted and one rejected, one of the accepted texts with a
\* repeated word; the auto-clean pass ran and removed nothing
C3_Witness ==
  /\ pc = "Completed"
  /\ auto_clean_hallucination
  /\ cleaned_count = 0
  /\ pulled = 3
  /\ segment_count = 2
  /\ \E i \in DOMAIN accepted : accepted[i].text = TxtStutter

TimestampsNonDecreasing(rows) ==
  \A i \in 1..(Len(rows) - 1) : TsSeconds(rows[i].ts) <= TsSeconds(rows[i + 1].ts)

InAcceptanceOrder(rows) ==
  \A i \in 1..(Len(rows) - 1) : rows[i].seg < rows[i + 1].seg

\* C4 (as stated): the engine yields in non-decreasing end order (it always
\* does here), so the timestamps of the rows are non-decreasing top to bottom
\* and the rows are in acceptance order.
C4_Original ==
  /\ TimestampsNonDecreasing(Rows(time_file))
  /\ InAcceptanceOrder(Rows(time_file))

\* C4 (amended): when the accepted segments come in non-decreasing start
\* order, the timestamps of the rows are non-decreasing top to bottom; the
\* rows are in acceptance order in every case.
C4_OrderedByStart ==
  /\ InAcceptanceOrder(Rows(time_file))
  /\ (\A i \in 1..(Len(accepted) - 1) : accepted[i].start <= accepted[i + 1].start)
        => TimestampsNonDecreasing(Rows(time_file))

\* three rows with increasing starts, the last of an hour or more
C4_Witness ==
  /\ Len(Rows(time_file)) = 3
  /\ \A i \in 1..(Len(accepted) - 1) : accepted[i].start < accepted[i + 1].start
  /\ accepted[3].start >= 3600

\* C5: when a KeyboardInterrupt has been handled, the full-text file and the
\* time-indexed file record the same accepted segments.
C5_SameSegmentsOnInterrupt ==
  pc = "Interrupted" => SegsOf(Chunks(full_file)) = SegsOf(Rows(time_file))

\* C6: the handler of a cancellation appends one interruption marker to the
\* full-text file and one to the time-indexed file and does nothing else: the
\* run log is unchanged, no completion marker is in either file, the
\* auto-clean pass has not run, and nothing happens after the return.
C6_Step ==
  /\ (pc \in TryBlock /\ exc' = "KeyboardInterrupt") =>
        /\ pc' = "Interrupted"
        /\ full_file' = full_file \o <<Line("interrupted")>>
        /\ time_file' = time_file \o <<Line("blank"), Line("interrupted")>>
        /\ log_file' = log_file
        /\ cleaned_count' = 0
        /\ ~HasKind(full_file', "completed")
        /\ ~HasKind(time_file', "completed")
  /\ pc = "Interrupted" => UNCHANGED vars

C6_OnlyMarkersOnInterrupt == [][C6_Step]_vars

\* an interrupt arrived after a row was written
C6_Witness ==
  /\ pc = "Interrupted"
  /\ Len(Rows(time_file)) >= 1
  /\ Last(time_file).kind = "interrupted"

\* C7: after a normal exhaustion and the return, each of the three files holds
\* its finalization content, the time-indexed file ending with its completion
\* marker.
C7_FootersAtReturn ==
  pc = "Completed" =>
     /\ HasKind(log_file, "elapsed")
     /\ Last(full_file).kind = "completed"
     /\ Last(time_file).kind = "completed"

\* C8 (as stated): after an engine error with at least one accepted segment
\* both files end with a terminal marker and the session is Failed.
C8_Original ==
  (exc = "EngineError" /\ segment_count >= 1) =>
     /\ pc = "Failed"
     /\ Last(full_file).kind = "interrupted"
     /\ Last(time_file).kind = "interrupted"

\* C8 (amended): an engine error during iteration leaves transcribe_to_files
\* (Failed) without finalizing anything: no terminal marker and no completion
\* marker is appended; the files end with what was written for the last
\* accepted segment.
C8_ErrorPropagatesUnfinalized ==
  (exc = "EngineError" /\ segment_count >= 1) =>
     /\ pc = "Failed"
     /\ Last(full_file).kind = "text"
     /\ Last(time_file).kind = "row"
     /\ ~HasKind(full_file, "interrupted") /\ ~HasKind(time_file, "interrupted")
     /\ ~HasKind(full_file, "completed") /\ ~HasKind(time_file, "completed")

\* the engine failed after two accepted segments
C8_Witness == exc = "EngineError" /\ segment_count = 2 /\ pc = "Failed"

\* C9: an engine error before any accepted segment leaves transcribe_to_files
\* with the full-text and time-indexed files holding their headers only.
C9_HeadersOnly ==
  (exc = "EngineError" /\ segment_count = 0) =>
     /\ pc = "Failed"
     /\ full_file = <<Line("title"), Line("file"), Line("status")>>
     /\ \A k \in {"row", "completed", "interrupted", "old"} : ~HasKind(time_file, k)
     /\ Len(time_file) = 9

\* the engine failed at the first pull, over files of an earlier run
C9_Witness ==
  /\ exc = "EngineError"
  /\ pulled = 0
  /\ HasKind(log_file, "old")

ProgressRows == SelectSeq(log_file, LAMBDA l : l.kind = "progress")

\* C10: with a known duration each milestone of 10..90 gets at most one
\* checkpoint row, written while processing the first accepted segment whose
\* floor(progress) reaches it and carrying that segment's position; no row is
\* written for a milestone not reached, and none when the duration is unknown.
C10_MilestonesOnce ==
  LET rows == ProgressRows
  IN /\ total_duration = 0 => rows = <<>>
     /\ \A i, j \in DOMAIN rows : i # j => rows[i].milestone # rows[j].milestone
     /\ \A i \in DOMAIN rows :
          /\ rows[i].milestone \in {10, 20, 30, 40, 50, 60, 70, 80, 90}
          /\ \E k \in DOMAIN accepted :
               /\ accepted[k].seg = rows[i].seg
               /\ (accepted[k].end * 100) \div total_duration >= rows[i].milestone
               /\ \A k2 \in 1..(k - 1) :
                    (accepted[k2].end * 100) \div total_duration < rows[i].milestone
               /\ rows[i].ts = format_time(accepted[k].end)

\* milestones logged by three different segments, the last past 100 percent
C10_Witness ==
  /\ Cardinality(SegsOf(ProgressRows)) = 3
  /\ Len(ProgressRows) = 9

Milestones == {10, 20, 30, 40, 50, 60, 70, 80, 90}

\* the milestones that floor(progress) of a segment end has reached
Reached(end) == {m \in Milestones : ProgressInt(end, total_duration) >= m}

\* C11 (as stated): a rejected segment advances the estimator with its end:
\* once the generator has dropped a segment, every milestone its end has
\* reached is already recorded.
C11_Original ==
  (pc = "pull" /\ pulled >= 1 /\ total_duration > 0
     /\ is_hallucination(segment.text))
  => Reached(segment.end) \subseteq logged_progress

\* C11 (amended): a rejected segment does not advance the estimator.  Between
\* two iterations of the loop the recorded milestones are exactly those reached
\* by the ends of the accepted segments, and every checkpoint row was written
\* for an accepted segment, which the filter does not reject.
C11_RejectedDoesNotAdvance ==
  /\ (pc = "pull" /\ total_duration > 0) =>
        logged_progress =
          {m \in Milestones : \E k \in DOMAIN accepted : m \in Reached(accepted[k].end)}
  /\ \A i \in DOMAIN ProgressRows :
        \E k \in DOMAIN accepted :
          /\ accepted[k].seg = ProgressRows[i].seg
          /\ ~is_hallucination(accepted[k].text)

\* a rejected segment past the 20% mark, after an accepted one below 10%:
\* nothing is recorded
C11_Witness ==
  /\ pc = "pull"
  /\ total_duration > 0
  /\ segment_count = 1
  /\ pulled = 2
  /\ is_hallucination(segment.text)
  /\ 20 \in Reached(segment.end)
  /\ logged_progress = {}

\* C12: no step of a session removes or changes what the run log already
\* holds: the log before the step is a prefix of the log after it, the content
\* of earlier sessions included.
C12_LogAppendOnly == [][IsPrefix(log_file, log_file')]_vars

\* a completed session over the log of an earlier one
C12_Witness ==
  /\ pc = "Completed"
  /\ log_file[1].kind = "old"
  /\ HasKind(log_file, "name")
  /\ HasKind(log_file, "progress")
  /\ HasKind(log_file, "elapsed")

\* ======================================================= offline operation
\* A transcription session that is not under way.
SessionIdle ==
  /\ pc = "Offline"
  /\ total_duration = 0
  /\ auto_clean_hallucination = FALSE
  /\ pulled = 0
  /\ segment = NoSegment
  /\ info = "None"
  /\ logged_progress = {}
  /\ segment_count = 0
  /\ full_file = <<>> /\ time_file = <<>> /\ log_file = <<>>
  /\ accepted = <<>>
  /\ cleaned_count = 0
  /\ exc = "None"

\* ====================================================== fix_hallucination.py
\* number of consecutive copies of unit in t from position pos on
RECURSIVE Copies(_, _, _)
Copies(t, pos, unit) ==
  IF pos + Len(unit) - 1 <= Len(t) /\ SubSeq(t, pos, pos + Len(unit) - 1) = unit
  THEN 1 + Copies(t, pos + Len(unit), unit)
  ELSE 0

\* "." matches any character but a newline
NoNewline(unit) == \A i \in DOMAIN unit : unit[i] # "\n"

\* the pattern (.{lo,hi}?)\1{more,} tried at pos: the length of group 1 (the
\* shortest that lets the pattern match, the group being lazy), 0 for no match
GroupLenAt(t, pos, lo, hi, more) ==
  LET fits == {n \in lo..hi :
                 /\ pos + n - 1 <= Len(t)
                 /\ NoNewline(SubSeq(t, pos, pos + n - 1))
                 /\ Copies(t, pos + n, SubSeq(t, pos, pos + n - 1)) >= more}
  IN IF fits = {} THEN 0 ELSE CHOOSE n \in fits : \A n2 \in fits : n <= n2

\* the end of that match: \1{more,} is greedy
MatchEnd(t, pos, n) ==
  pos + n * (1 + Copies(t, pos + n, SubSeq(t, pos, pos + n - 1)))

\* re.findall of (.{lo,hi}?)\1{more,}: group 1 of the successive matches
RECURSIVE FindAll(_, _, _, _, _)
FindAll(t, pos, lo, hi, more) ==
  IF pos > Len(t) THEN {}
  ELSE LET n == GroupLenAt(t, pos, lo, hi, more)
       IN IF n = 0 THEN FindAll(t, pos + 1, lo, hi, more)
          ELSE {SubSeq(t, pos, pos + n - 1)}
               \cup FindAll(t, MatchEnd(t, pos, n), lo, hi, more)

\* re.sub of (.{lo,hi}?)\1{more,} by \1
RECURSIVE SubAll(_, _, _, _, _)
SubAll(t, pos, lo, hi, more) ==
  IF pos > Len(t) THEN <<>>
  ELSE LET n == GroupLenAt(t, pos, lo, hi, more)
       IN IF n = 0 THEN <<t[pos]>> \o SubAll(t, pos + 1, lo, hi, more)
          ELSE SubSeq(t, pos, pos + n - 1)
               \o SubAll(t, MatchEnd(t, pos, n), lo, hi, more)

\* a similarity that only tells equal strings from different ones
similarity_exact(s1, s2) == IF s1 = s2 /\ s1 # <<>> THEN <<1, 1>> ELSE <<0, 1>>

\* similarity(s1, s2) as the fraction <<intersection, union>>
similarity(s1, s2) ==
  IF s1 = <<>> \/ s2 = <<>> THEN <<0, 1>>
  ELSE <<Cardinality(CharSet(s1) \cap CharSet(s2)),
         Cardinality(CharSet(s1) \cup CharSet(s2))>>

\* "next_content == current_content or similarity(...) > 0.8"
IsRepeatOf(current_content, next_content) ==
  \/ next_content = current_content
  \/ similarity(current_content, next_content)[1] * 10
       > similarity(current_content, next_content)[2] * 8

\* a run start of any length
SkippedAsRunStartNever(current_content) == current_content = <<>>

\* "if not current_content or len(current_content) < 5": no run starts here
SkippedAsRunStart(current_content) ==
  current_content = <<>> \/ Len(current_content) < 5

\* first index j from which lines[j] is not a repeat of current_content
RECURSIVE RepeatEnd(_, _, _)
RepeatEnd(lines, current_content, j) ==
  IF j <= Len(lines) /\ IsRepeatOf(current_content, strip(lines[j]))
  THEN RepeatEnd(lines, current_content, j + 1)
  ELSE j

\* the scan of detect_repeated_content from line i on
RECURSIVE DetectFrom(_, _, _)
DetectFrom(lines, threshold, i) ==
  IF i > Len(lines) THEN <<>>
  ELSE LET current_content == strip(lines[i])
       IN IF SkippedAsRunStart(current_content)
          THEN DetectFrom(lines, threshold, i + 1)
          ELSE LET j == RepeatEnd(lines, current_content, i + 1)
                   repeat_count == j - i
               IN IF repeat_count >= threshold
                  THEN <<[start |-> i, end |-> j - 1]>>
                       \o DetectFrom(lines, threshold, j)
                  ELSE DetectFrom(lines, threshold, i + 1)

\* detect_repeated_content(lines, threshold): the sections (start, end), with
\* indices counted from 1
detect_repeated_content(lines, threshold) == DetectFrom(lines, threshold, 1)

\* detect_short_repeats(content, threshold), before list(set(...)) orders it
detect_short_repeats(content, threshold) == FindAll(content, 1, 2, 15, threshold - 1)

\* the word loop of clean_repeated_words
RECURSIVE CollapseWords(_, _)
CollapseWords(words, i) ==
  IF i > Len(words) THEN <<>>
  ELSE LET j == WordRunEnd(words, words[i], i + 1)
           repeat_count == j - i
       IN IF repeat_count >= 3
          THEN <<words[i]>> \o CollapseWords(words, j)
          ELSE <<words[i]>> \o CollapseWords(words, i + 1)

clean_repeated_words(t) ==
  strip(SubAll(join(CollapseWords(split(t), 1)), 1, 2, 10, 2))

\* Counter(content).most_common(1)[0][1]
MostCommonCount(content) ==
  LET count(c) == Cardinality({i \in DOMAIN content : content[i] = c})
  IN CHOOSE n \in 1..Len(content) :
       /\ \E c \in CharSet(content) : count(c) = n
       /\ \A c \in CharSet(content) : count(c) <= n

\* [ㄱ-ㅎㅏ-ㅣ]: the consonant and vowel letters that occur in the texts
Jamo == {"JAMO_K", "JAMO_H", "JAMO_YU"}

\* [a-zA-Z]; the texts hold lower-case letters only, capitals being the
\* romanised Hangul syllables
AsciiLetters ==
  {"a", "b", "c", "d", "e", "f", "g", "h", "i", "j", "k", "l", "m", "n", "o",
   "p", "q", "r", "s", "t", "u", "v", "w", "x", "y", "z"}

is_likely_hallucination(content) ==
  \/ Len(content) < 2
  \/ (Len(content) > 10 /\ MostCommonCount(content) * 10 > Len(content) * 8)
  \/ \E n \in 1..3 :
        /\ n <= Len(content)
        /\ NoNewline(SubSeq(content, 1, n))
        /\ Copies(content, n + 1, SubSeq(content, 1, n)) >= 5
  \/ \A i \in DOMAIN content : content[i] \in Jamo
  \/ (content[1] \in AsciiLetters /\ Copies(content, 2, <<content[1]>>) >= 10)

\* str.find: index of the first occurrence of pattern in t from pos on, 0
\* when there is none
RECURSIVE Find(_, _, _)
Find(t, pattern, pos) ==
  IF pos + Len(pattern) - 1 > Len(t) THEN 0
  ELSE IF SubSeq(t, pos, pos + Len(pattern) - 1) = pattern THEN pos
  ELSE Find(t, pattern, pos + 1)

\* ''.join(t.split(pattern)) and t.replace(pattern, ''): the occurrences of
\* pattern removed from left to right
RECURSIVE Remove(_, _)
Remove(t, pattern) ==
  LET k == Find(t, pattern, 1)
  IN IF k = 0 THEN t
     ELSE SubSeq(t, 1, k - 1) \o Remove(SubSeq(t, k + Len(pattern), Len(t)), pattern)

\* the reconstruction from three occurrences on
ReducePatternFromThree(content, pattern) ==
  LET k == Find(content, pattern, 1)
      k2 == IF k = 0 THEN 0 ELSE Find(content, pattern, k + Len(pattern))
  IN IF k2 # 0 /\ Find(content, pattern, k2 + Len(pattern)) # 0
     THEN pattern
          \o strip(Remove(Remove(SubSeq(content, k + Len(pattern), Len(content)),
                                 pattern), pattern))
     ELSE content

\* "if pattern in content: parts = content.split(pattern); if len(parts) > 2:
\*  content = pattern + ''.join(parts[1:]).replace(pattern, '').strip()"
ReducePattern(content, pattern) ==
  LET k == Find(content, pattern, 1)
  IN IF k # 0 /\ Find(content, pattern, k + Len(pattern)) # 0
     THEN pattern
          \o strip(Remove(Remove(SubSeq(content, k + Len(pattern), Len(content)),
                                 pattern), pattern))
     ELSE content

\* "for pattern in short_patterns": the patterns in the order of the list
RECURSIVE ReducePatterns(_, _)
ReducePatterns(content, short_patterns) ==
  IF short_patterns = <<>> THEN content
  ELSE ReducePatterns(ReducePattern(content, Head(short_patterns)),
                      Tail(short_patterns))

\* list(set(patterns)): the patterns in any order
Orderings(patterns) ==
  {o \in [1..Cardinality(patterns) -> patterns] :
     \A i, j \in DOMAIN o : i # j => o[i] # o[j]}

\* [e['content'] for e in entries]
Contents(entries) == [i \in DOMAIN entries |-> entries[i].content]

\* the lists detect_short_repeats can return for the entries
ShortPatternLists(entries) ==
  Orderings(detect_short_repeats(join(Contents(entries)), 5))

\* "for idx in range(start + 1, end + 1): skip_indices.add(idx)"
SkipIndices(repeated_sections) ==
  UNION {(repeated_sections[k].start + 1)..repeated_sections[k].end :
           k \in DOMAIN repeated_sections}

\* a loop that keeps contents of any length
TooShortNever(content) == FALSE

\* "if len(content.strip()) < 3: continue"
TooShort(content) == Len(strip(content)) < 3

\* an entry stamped with the start of the recording
CleanedEntryRestamped(entry, content) ==
  [time |-> format_time(0), content |-> content,
   original_line |-> entry.original_line]

\* "cleaned.append({'time': entry['time'], 'content': content,
\*                  'original_line': entry['original_line']})"
CleanedEntry(entry, content) ==
  [time |-> entry.time, content |-> content,
   original_line |-> entry.original_line]

\* the loop over the entries, from entry i on
RECURSIVE CleanFrom(_, _, _, _)
CleanFrom(entries, i, skip_indices, short_patterns) ==
  IF i > Len(entries) THEN <<>>
  ELSE IF i \in skip_indices
       THEN CleanFrom(entries, i + 1, skip_indices, short_patterns)
  ELSE IF is_likely_hallucination(entries[i].content)
       THEN CleanFrom(entries, i + 1, skip_indices, short_patterns)
  ELSE LET content ==
             clean_repeated_words(ReducePatterns(entries[i].content, short_patterns))
       IN IF TooShort(content)
          THEN CleanFrom(entries, i + 1, skip_indices, short_patterns)
          ELSE <<CleanedEntry(entries[i], content)>>
               \o CleanFrom(entries, i + 1, skip_indices, short_patterns)

\* "repeated_sections = detect_repeated_content(contents, threshold=3)"
RepeatedSections(entries) == detect_repeated_content(Contents(entries), 3)

\* clean_entries(entries), short_patterns being the list that
\* detect_short_repeats returned
clean_entries(entries, short_patterns) ==
  IF entries = <<>> THEN entries
  ELSE CleanFrom(entries, 1, SkipIndices(RepeatedSections(entries)), short_patterns)

\* ------------------------------------------------------ clean_entries alone
\* contents of entries: a sentence, a sentence over the same characters, a
\* short answer, a single letter, a stutter
TxtHello == <<"h", "e", "l", "l", "o">>
TxtOlleh == <<"o", "l", "l", "e", "h">>
TxtAbcd == <<"a", "b", "c", "d">>
TxtLetter == <<"a">>
TxtWords == <<"x", " ", "x", " ", "x", " ", "y">>

ContentPool == {TxtHello, TxtOlleh, TxtAbcd, TxtLetter, TxtWords}

\* seconds between the starts of consecutive rows
RowSpacings == {0, 10}

\* contents that the per-entry steps rewrite: a word of consonant and vowel
\* letters said three times, a syllable pair five times in a row, the pair
\* twice with a word between, the pair once
TxtJamoWords == <<"JAMO_K", "JAMO_H", "JAMO_YU", " ", "JAMO_K", "JAMO_H", "JAMO_YU",
                  " ", "JAMO_K", "JAMO_H", "JAMO_YU">>
TxtXyRun == <<"x", "y", "x", "y", "x", "y", "x", "y", "x", "y">>
TxtXyTwice == <<"x", "y", " ", "a", " ", "x", "y">>
TxtXyOnce == <<"x", "y", " ", "a", "b">>

PatternPool == {TxtJamoWords, TxtXyRun, TxtXyTwice, TxtXyOnce}

\* entries of the lists drawn from PatternPool at most
MaxPatternEntries == 2

\* the entries with the contents c, spacing seconds apart, original_line
\* being the position of the line
EntriesOf(c, spacing) ==
  [i \in DOMAIN c |-> [time |-> format_time(spacing * i), content |-> c[i],
                        original_line |-> i]]

\* entries as parse_time_md_file returns them
EntryInputs ==
  UNION {{EntriesOf(c, spacing) : c \in [1..n -> ContentPool], spacing \in RowSpacings} :
         n \in 0..MaxEntries}
  \cup
  UNION {{EntriesOf(c, spacing) : c \in [1..n -> PatternPool], spacing \in RowSpacings} :
         n \in 1..MaxPatternEntries}

EntriesInit ==
  /\ SessionIdle
  /\ ExtraIdle
  /\ CleanerIdle
  /\ FilterIdle
  /\ \E input \in EntryInputs : passes = <<input>>

\* clean_entries applied to the latest list
CleanPass ==
  /\ Len(passes) <= MaxPasses
  /\ \E short_patterns \in ShortPatternLists(Last(passes)) :
       passes' = Append(passes, clean_entries(Last(passes), short_patterns))
  /\ UNCHANGED <<vars, extra_vars, cleaner_vars, call_text, verdict>>

EntriesNext == CleanPass

EntriesSpec == EntriesInit /\ [][EntriesNext]_<<vars, offline_vars>>

\* ------------------------------------------------- fix_hallucination.main
\* A path is a sequence of pieces, ".md" being one piece.
MdPath == <<"talk_time", ".md">>
TxtPath == <<"talk_time", ".txt">>

\* str(file_path).replace('.md', '.backup.md')
BackupPath(file_path) ==
  [i \in DOMAIN file_path |->
     IF file_path[i] = ".md" THEN ".backup.md" ELSE file_path[i]]

Paths == {MdPath, TxtPath, BackupPath(MdPath), BackupPath(TxtPath)}

NoFile == [exists |-> FALSE, lines |-> <<>>]

File(lines) == [exists |-> TRUE, lines |-> lines]

\* "line.strip().startswith('| 시간 | 내용 |') or re.match(r'\|\s*\d{2}:\d{2}', line)"
IsTableLine(line) == line.kind = "thead" \/ TableStartMatch(line)

\* "'|---|---|' in line"
IsSeparator(line) == line.kind = "tsep"

\* the search for table_start from line i on; 0 when it stays -1
RECURSIVE TableStartFrom(_, _)
TableStartFrom(lines, i) ==
  IF i > Len(lines) THEN 0
  ELSE IF IsTableLine(lines[i]) /\ i > 1 /\ IsSeparator(lines[i - 1]) THEN i
  ELSE IF IsTableLine(lines[i]) /\ i < Len(lines) /\ IsSeparator(lines[i + 1])
       THEN i + 2
  ELSE TableStartFrom(lines, i + 1)

\* the entries of the lines that match the row pattern
RECURSIVE ParseRows(_)
ParseRows(lines) ==
  IF lines = <<>> THEN <<>>
  ELSE IF EntryMatch(Head(lines))
       THEN <<[time |-> Head(lines).ts, content |-> strip(Head(lines).text),
               original_line |-> Head(lines)]>> \o ParseRows(Tail(lines))
       ELSE ParseRows(Tail(lines))

\* parse_time_md_file(file_path) on the lines of the file
parse_time_md_file(lines) ==
  LET table_start == TableStartFrom(lines, 1)
  IN IF table_start = 0 THEN [header_lines |-> lines, entries |-> <<>>]
     ELSE [header_lines |-> SubSeq(lines, 1, table_start - 1),
           entries |-> ParseRows(SubSeq(lines, table_start, Len(lines)))]

\* f"| {entry['time']} | {entry['content']} |\n" for each cleaned entry
RECURSIVE WriteRows(_)
WriteRows(cleaned_entries) ==
  IF cleaned_entries = <<>> THEN <<>>
  ELSE <<TimeRow(Head(cleaned_entries).time, Head(cleaned_entries).content,
                 Head(cleaned_entries).original_line.seg)>>
       \o WriteRows(Tail(cleaned_entries))

\* rows of a time-indexed file, 10 seconds apart
RowsOf(c) == [i \in DOMAIN c |-> TimeRow(format_time(10 * i), c[i], i)]

\* rows of sentences and single letters, and short tables in which a row
\* stutters
RowInputs ==
  UNION {{RowsOf(c) : c \in [1..n -> {TxtHello, TxtLetter}]} : n \in 0..MaxRows}
  \cup
  UNION {{RowsOf(c) : c \in [1..n -> {TxtHello, TxtWords}]} : n \in 1..MaxPatternEntries}

\* time-indexed files: with and without the table header, ended by the
\* completion footer, by the interruption marker or by nothing
FileInputs ==
  {header \o rows \o footer :
     header \in {TimeHeader, <<>>}, rows \in RowInputs,
     footer \in {TimeFooter, TimeInterrupted, <<>>}}

\* --threshold
Thresholds == {2, 3, 4}

CleanerInit ==
  /\ SessionIdle
  /\ ExtraIdle
  /\ FilterIdle
  /\ passes = <<>>
  /\ cpc = "main"
  /\ args \in [file : {MdPath, TxtPath}, no_backup : BOOLEAN, threshold : Thresholds]
  /\ \E f \in {NoFile} \cup {File(lines) : lines \in FileInputs} :
       disk = [path \in Paths |-> IF path = args.file THEN f ELSE NoFile]
  /\ disk_before = disk
  /\ main_header_lines = <<>>
  /\ main_entries = <<>>
  /\ main_cleaned_entries = <<>>
  /\ returned = "None"
  /\ runs = 1
  /\ originals = <<>>

\* "if not file_path.exists(): return 1"
MissingFile ==
  /\ cpc = "main"
  /\ ~disk[args.file].exists
  /\ returned' = "1"
  /\ cpc' = "returned"
  /\ UNCHANGED <<args, disk, main_header_lines, main_entries, main_cleaned_entries,
                 runs, originals, disk_before>>
  /\ UNCHANGED <<vars, extra_vars, passes, call_text, verdict>>

\* "header_lines, entries = parse_time_md_file(file_path)"
Parse ==
  /\ cpc = "main"
  /\ disk[args.file].exists
  /\ LET parsed == parse_time_md_file(disk[args.file].lines)
     IN /\ main_header_lines' = parsed.header_lines
        /\ main_entries' = parsed.entries
  /\ cpc' = "parsed"
  /\ UNCHANGED <<args, disk, main_cleaned_entries, returned, runs, originals,
                 disk_before>>
  /\ UNCHANGED <<vars, extra_vars, passes, call_text, verdict>>

\* a test that never finds the entries missing
NoEntriesNever(entries) == FALSE

\* "if not entries:"
NoEntries(entries) == entries = <<>>

\* "if not entries: return 1"
NoTable ==
  /\ cpc = "parsed"
  /\ NoEntries(main_entries)
  /\ returned' = "1"
  /\ cpc' = "returned"
  /\ UNCHANGED <<args, disk, main_header_lines, main_entries, main_cleaned_entries,
                 runs, originals, disk_before>>
  /\ UNCHANGED <<vars, extra_vars, passes, call_text, verdict>>

\* a main that saves whatever clean_entries returned
HasRemovedAlways(removed_count) == TRUE

\* "if removed_count > 0:"
HasRemoved(removed_count) == removed_count > 0

\* "cleaned_entries = clean_entries(entries, ...)", removed_count, and
\* "if removed_count > 0: write_cleaned_file(...)", else "return 0"
Clean ==
  /\ cpc = "parsed"
  /\ ~NoEntries(main_entries)
  /\ \E short_patterns \in ShortPatternLists(main_entries) :
       LET cleaned_entries == clean_entries(main_entries, short_patterns)
           removed_count == Len(main_entries) - Len(cleaned_entries)
       IN /\ main_cleaned_entries' = cleaned_entries
          /\ IF HasRemoved(removed_count)
             THEN /\ cpc' = "write"
                  /\ originals' = Append(originals, disk[args.file].lines)
                  /\ UNCHANGED returned
             ELSE /\ cpc' = "returned"
                  /\ returned' = "0"
                  /\ UNCHANGED originals
  /\ UNCHANGED <<args, disk, main_header_lines, main_entries, runs, disk_before>>
  /\ UNCHANGED <<vars, extra_vars, passes, call_text, verdict>>

\* write_cleaned_file, "if backup:": backup_path is opened with 'w', then the
\* file is read and its content written to it
Backup ==
  /\ cpc = "write"
  /\ ~args.no_backup
  /\ LET backup_path == BackupPath(args.file)
         opened == [disk EXCEPT ![backup_path] = File(<<>>)]
     IN disk' = [opened EXCEPT ![backup_path] = File(opened[args.file].lines)]
  /\ cpc' = "rewrite"
  /\ UNCHANGED <<args, main_header_lines, main_entries, main_cleaned_entries,
                 returned, runs, originals, disk_before>>
  /\ UNCHANGED <<vars, extra_vars, passes, call_text, verdict>>

\* write_cleaned_file: the file is opened with 'w' and gets header_lines and
\* one row per cleaned entry; then main returns 0
Rewrite ==
  /\ cpc = "rewrite" \/ (cpc = "write" /\ args.no_backup)
  /\ disk' = [disk EXCEPT ![args.file] =
                File(Overwrite(disk[args.file].lines,
                               main_header_lines \o WriteRows(main_cleaned_entries)))]
  /\ returned' = "0"
  /\ cpc' = "returned"
  /\ UNCHANGED <<args, main_header_lines, main_entries, main_cleaned_entries,
                 runs, originals, disk_before>>
  /\ UNCHANGED <<vars, extra_vars, passes, call_text, verdict>>

\* the cleaner is called again with the same command line
RunAgain ==
  /\ cpc = "returned"
  /\ runs < MaxRuns
  /\ cpc' = "main"
  /\ returned' = "None"
  /\ runs' = runs + 1
  /\ disk_before' = disk
  /\ main_header_lines' = <<>>
  /\ main_entries' = <<>>
  /\ main_cleaned_entries' = <<>>
  /\ UNCHANGED <<args, disk, originals>>
  /\ UNCHANGED <<vars, extra_vars, passes, call_text, verdict>>

CleanerNext ==
  \/ MissingFile
  \/ Parse
  \/ NoTable
  \/ Clean
  \/ Backup
  \/ Rewrite
  \/ RunAgain

CleanerSpec == CleanerInit /\ [][CleanerNext]_<<vars, offline_vars>>

\* ------------------------------------------------- is_hallucination alone
CycleAlphabet == <<".", "a", "b", "c", "d", "e">>

\* n characters cycling through the first k of the alphabet
CycleText(k, n) == [i \in 1..n |-> CycleAlphabet[((i - 1) % k) + 1]]

\* n whitespace characters
BlankText(n) == [i \in 1..n |-> IF i % 3 = 0 THEN "\t" ELSE IF i % 3 = 1 THEN " " ELSE "\n"]

\* a phrase with its last character missing
Clipped(pattern) == SubSeq(pattern, 1, Len(pattern) - 1)

\* the texts is_hallucination is called with: runs of up to MaxRun characters
\* over 1 to 6 distinct ones, blanks, the filler phrases and their clipped
\* forms, each with and without a character before and after
FilterCores ==
  {CycleText(k, n) : k \in 1..6, n \in 0..MaxRun}
  \cup {BlankText(n) : n \in 0..MaxRun}
  \cup HALLUCINATION_PATTERNS
  \cup {Clipped(pattern) : pattern \in HALLUCINATION_PATTERNS}

FilterAffixes == {<<>>, <<" ">>, <<"x">>}

FilterTexts ==
  {pre \o core \o post : pre \in FilterAffixes, core \in FilterCores,
                          post \in FilterAffixes}

FilterInit ==
  /\ SessionIdle
  /\ ExtraIdle
  /\ CleanerIdle
  /\ passes = <<>>
  /\ call_text \in FilterTexts
  /\ verdict = "None"

\* one call is_hallucination(text)
CallFilter ==
  /\ verdict = "None"
  /\ verdict' = IF is_hallucination(call_text) THEN "True" ELSE "False"
  /\ UNCHANGED <<vars, extra_vars, cleaner_vars, passes, call_text>>

FilterNext == CallFilter

FilterSpec == FilterInit /\ [][FilterNext]_<<vars, offline_vars>>

\* C20: is_hallucination(text) is true exactly when the text is empty or all
\* whitespace, or is longer than 10 characters with fewer than 5 distinct
\* characters, or has one of the filler phrases as a substring.
C20_FilterIff ==
  verdict # "None" =>
    ((verdict = "True") <=>
       \/ \A i \in DOMAIN call_text : call_text[i] \in {" ", "\t", "\n"}
       \/ (Len(call_text) >= 11
             /\ Cardinality({call_text[i] : i \in DOMAIN call_text}) <= 4)
       \/ \E i, j \in DOMAIN call_text :
             SubSeq(call_text, i, j) \in HALLUCINATION_PATTERNS)

\* accepted: eleven characters over five distinct ones, the first a blank
C20_Witness ==
  /\ verdict = "False"
  /\ Len(call_text) = 11
  /\ call_text[1] = " "
  /\ Cardinality(CharSet(call_text)) = 5

\* [e['time'] for e in entries]
Times(entries) == [i \in DOMAIN entries |-> entries[i].time]

RECURSIVE IsSubsequence(_, _)
IsSubsequence(a, b) ==
  IF a = <<>> THEN TRUE
  ELSE IF b = <<>> THEN FALSE
  ELSE IF Head(a) = Head(b) THEN IsSubsequence(Tail(a), Tail(b))
  ELSE IsSubsequence(a, Tail(b))

\* C14: the timestamps of the entries clean_entries returns are a subsequence
\* of the timestamps of its input, each returned entry carrying the timestamp
\* of the input entry it was made from and no input entry returned twice.
C14_TimesSubsequence ==
  \A k \in 1..(Len(passes) - 1) :
    LET input == passes[k]
        output == passes[k + 1]
    IN /\ IsSubsequence(Times(output), Times(input))
       /\ \A i, j \in DOMAIN output :
            i < j => \E m, n \in DOMAIN input :
                       /\ m < n
                       /\ input[m].original_line = output[i].original_line
                       /\ input[n].original_line = output[j].original_line
                       /\ input[m].time = output[i].time
                       /\ input[n].time = output[j].time

\* four entries with different timestamps cleaned to the first and the last
C14_Witness ==
  /\ Len(passes) >= 2
  /\ Len(passes[1]) = 4
  /\ passes[1][1].time # passes[1][2].time
  /\ Len(passes[2]) = 2
  /\ passes[2][1].original_line = 1
  /\ passes[2][2].original_line = 4

\* the entry at position i of input is among the entries of output
Survives(input, output, i) ==
  \E k \in DOMAIN output : output[k].original_line = input[i].original_line

\* identical, or Jaccard similarity of the character sets above 0.8
Alike(x, y) ==
  \/ x = y
  \/ Cardinality(CharSet(x) \cap CharSet(y)) * 5
       > Cardinality(CharSet(x) \cup CharSet(y)) * 4

\* a..b is a maximal run of consecutive entries, each alike to the one before
IsMaximalRun(input, a, b) ==
  /\ a <= b
  /\ \A i \in a..(b - 1) : Alike(input[i].content, input[i + 1].content)
  /\ a = 1 \/ ~Alike(input[a - 1].content, input[a].content)
  /\ b = Len(input) \/ ~Alike(input[b].content, input[b + 1].content)

\* C15 (as stated): of every maximal run of 3 or more alike entries, whatever
\* the length of their content, exactly the first is kept, and the different
\* entries next to the run are returned unchanged.
C15_Original ==
  \A k \in 1..(Len(passes) - 1) :
    LET input == passes[k]
        output == passes[k + 1]
    IN \A a, b \in DOMAIN input :
         (IsMaximalRun(input, a, b) /\ b - a + 1 >= 3) =>
            /\ Survives(input, output, a)
            /\ \A i \in (a + 1)..b : ~Survives(input, output, i)
            /\ \A i \in {a - 1, b + 1} \cap DOMAIN input :
                 \E m \in DOMAIN output : output[m] = input[i]

\* a..b is a run as detect_repeated_content finds one at a: the first entry has
\* 5 characters or more, the others are alike to the first, and the entry
\* after b is not
IsRunFrom(input, a, b) ==
  /\ b - a + 1 >= 3
  /\ Len(input[a].content) >= 5
  /\ \A i \in (a + 1)..b : Alike(input[a].content, input[i].content)
  /\ b = Len(input) \/ ~Alike(input[a].content, input[b + 1].content)

\* position i lies in such a run, after its first entry
InRunTail(input, i) ==
  \E a, b \in DOMAIN input : IsRunFrom(input, a, b) /\ a < i /\ i <= b

\* a content no per-entry step drops: 3 or more characters, all different, not
\* all of them consonant or vowel letters
IsPlain(content) ==
  /\ Len(content) >= 3
  /\ Cardinality(CharSet(content)) = Len(content)
  /\ \E i \in DOMAIN content : content[i] \notin Jamo

\* C15 (amended): a run of 3 or more consecutive entries is collapsed when
\* its first entry has at least 5 characters, the following ones are identical
\* to the first or have a Jaccard similarity above 0.8 with it, and no earlier
\* run reaches its first entry: all entries of the run after the first are
\* dropped.  A run whose first entry is shorter is not collapsed: an entry
\* outside the tail of every such run is returned when its content (3 or more
\* characters, all different) is one the per-entry steps keep.
C15_RunsOfLongContentCollapse ==
  \A k \in 1..(Len(passes) - 1) :
    LET input == passes[k]
        output == passes[k + 1]
    IN /\ \A a, b \in DOMAIN input :
            (IsRunFrom(input, a, b) /\ ~InRunTail(input, a)) =>
               \A i \in (a + 1)..b : ~Survives(input, output, i)
       /\ \A i \in DOMAIN input :
            (~InRunTail(input, i) /\ IsPlain(input[i].content))
               => Survives(input, output, i)

\* three equal four-character entries, all returned
C15_Witness ==
  /\ Len(passes) >= 2
  /\ Len(passes[1]) = 4
  /\ \A i \in 1..3 : passes[1][i].content = TxtAbcd
  /\ passes[1][4].content = TxtHello
  /\ Len(passes[2]) = 4

\* C18 (as stated): clean_entries applied to its own result returns a list of
\* the same length.
C18_SecondPassRemovesNothing ==
  Len(passes) >= 3 => Len(passes[3]) = Len(passes[2])

\* the lines of a file that do not match the row pattern
NonRows(lines) == SelectSeq(lines, LAMBDA line : ~EntryMatch(line))

\* C13 (as stated): a rewrite by the offline cleaner re-emits, unchanged and in
\* order, every line of the original file that does not match the row
\* pattern: the header lines and any footer after the rows.
C13_NonRowsKept ==
  (cpc = "returned" /\ returned = "0" /\ Len(originals) = runs) =>
     NonRows(disk[args.file].lines) = NonRows(Last(originals))

\* C16 (as stated): with the backup not suppressed, what the file held before
\* each rewrite is held afterwards by a file at another path.
C16_EveryOriginalRecoverable ==
  (cpc = "returned" /\ ~args.no_backup) =>
     \A k \in DOMAIN originals :
        \E path \in Paths \ {args.file} :
           disk[path].exists /\ disk[path].lines = originals[k]

C19_ThresholdUsed ==
  cpc \in {"write", "rewrite", "returned"} /\ main_entries # <<>> =>
     \E short_patterns \in ShortPatternLists(main_entries) :
        main_cleaned_entries =
          CleanFrom(main_entries, 1,
                    SkipIndices(detect_repeated_content(Contents(main_entries),
                                                        args.threshold)),
                    short_patterns)

\* ------------------------------------------------------ transcribe_to_file
\* The call transcribe_to_file(audio_path, output_path, include_timestamps)
\* for an audio file that exists: transcribe consumes _transcribe_generator,
\* the output file is written, and the block after the write iterates
\* _transcribe_generator once more.
\* segments the engine yields to one loop of transcribe_to_file at most
MaxPulls == 2

ToFileInit ==
  /\ pc = "to_file"
  /\ total_duration \in Durations
  /\ auto_clean_hallucination = FALSE
  /\ pulled = 0
  /\ segment = NoSegment
  /\ info = "None"
  /\ logged_progress = {}
  /\ segment_count = 0
  /\ full_file = <<>> /\ time_file = <<>> /\ log_file = <<>>
  /\ accepted = <<>>
  /\ cleaned_count = 0
  /\ exc = "None"
  /\ CleanerIdle /\ passes = <<>> /\ FilterIdle /\ PureIdle /\ WebIdle
  /\ engine_runs = 0
  /\ \E prior \in BOOLEAN : output_file = IF prior THEN OldContent ELSE <<>>

\* what a step of transcribe_to_file never touches
ToFileFrame ==
  UNCHANGED <<total_duration, auto_clean_hallucination, logged_progress,
              full_file, time_file, log_file, cleaned_count,
              cleaner_vars, passes, call_text, verdict, fn_call, web_vars>>

\* "result = self.transcribe(audio_path, show_timestamps=False)": transcribe
\* starts _transcribe_generator, which asks the engine for its segments
CallTranscribe ==
  /\ pc = "to_file"
  /\ pc' = "transcribe"
  /\ engine_runs' = engine_runs + 1
  /\ UNCHANGED <<pulled, segment, info, segment_count, accepted, exc, output_file>>
  /\ ToFileFrame

\* one segment of the engine inside the loop of transcribe: dropped by the
\* generator, or counted and kept in segment_list and full_text_parts
TranscribeSegment ==
  /\ pc = "transcribe"
  /\ pulled < MaxPulls
  /\ \E tm \in SegTimes, text \in TextPool :
       /\ tm[2] >= segment.end
       /\ segment' = [start |-> tm[1], end |-> tm[2], text |-> text]
       /\ pulled' = pulled + 1
       /\ IF GeneratorSkips(text)
          THEN UNCHANGED <<info, segment_count, accepted>>
          ELSE /\ info' = "info"
               /\ segment_count' = segment_count + 1
               /\ accepted' = Append(accepted,
                     [start |-> tm[1], end |-> tm[2], text |-> text, seg |-> pulled + 1])
  /\ UNCHANGED <<pc, exc, engine_runs, output_file>>
  /\ ToFileFrame

\* the engine's sequence ends: transcribe builds its result, reading
\* info.language, which raises AttributeError while info is still None
TranscribeReturn ==
  /\ pc = "transcribe"
  /\ IF info = "None"
     THEN pc' = "ToFileRaised" /\ exc' = "AttributeError"
     ELSE pc' = "write" /\ exc' = exc
  /\ UNCHANGED <<pulled, segment, info, segment_count, accepted, engine_runs,
                 output_file>>
  /\ ToFileFrame

\* " ".join(full_text_parts).strip()
FullText(segs) == strip(join([i \in 1..Len(segs) |-> segs[i].text]))

OutputLine(kind, text, seg) == [Line(kind) EXCEPT !.text = text, !.seg = seg]

\* the "[start - end]" line and the text line of each segment
StampedBlocks(segs) ==
  [k \in 1..(2 * Len(segs)) |->
     IF k % 2 = 1 THEN OutputLine("stamp", <<>>, segs[(k + 1) \div 2].seg)
                  ELSE OutputLine("text", segs[k \div 2].text, segs[k \div 2].seg)]

\* what transcribe_to_file writes to output_path
OutputContent(segs, include_timestamps) ==
  <<Line("title"), Line("source"), Line("language"), Line("rule")>>
  \o (IF include_timestamps THEN StampedBlocks(segs)
                            ELSE <<OutputLine("text", FullText(segs), 0)>>)

\* the output file is opened with "w" and written; then the block after the
\* write calls _transcribe_generator again, which asks the engine once more
WriteOutput ==
  /\ pc = "write"
  /\ \E include_timestamps \in BOOLEAN :
       output_file' = Overwrite(output_file, OutputContent(accepted, include_timestamps))
  /\ engine_runs' = engine_runs + 1
  /\ pulled' = 0
  /\ segment' = NoSegment
  /\ pc' = "trailing"
  /\ UNCHANGED <<info, segment_count, accepted, exc>>
  /\ ToFileFrame

\* one segment of the engine inside the second loop: dropped by the
\* generator, or handed to the loop body, whose open(full_file, "a") names a
\* variable the function never binds
TrailingSegment ==
  /\ pc = "trailing"
  /\ pulled < MaxPulls
  /\ \E tm \in SegTimes, text \in TextPool :
       /\ tm[2] >= segment.end
       /\ segment' = [start |-> tm[1], end |-> tm[2], text |-> text]
       /\ pulled' = pulled + 1
       /\ IF GeneratorSkips(text)
          THEN pc' = pc /\ exc' = exc
          ELSE pc' = "ToFileRaised" /\ exc' = "NameError"
  /\ UNCHANGED <<info, segment_count, accepted, engine_runs, output_file>>
  /\ ToFileFrame

\* the second sequence ends: "end_time = time.time()" names a module the
\* file never imports at module level
TrailingEnd ==
  /\ pc = "trailing"
  /\ pc' = "ToFileRaised"
  /\ exc' = "NameError"
  /\ UNCHANGED <<pulled, segment, info, segment_count, accepted, engine_runs,
                 output_file>>
  /\ ToFileFrame

ToFileNext ==
  \/ CallTranscribe
  \/ TranscribeSegment
  \/ TranscribeReturn
  \/ WriteOutput
  \/ TrailingSegment
  \/ TrailingEnd

ToFileSpec == ToFileInit /\ [][ToFileNext]_<<vars, offline_vars>>

\* C21: transcribe_to_file asks the engine for its segments once only and
\* raises no exception on its way to returning the output path.
C21_Original == engine_runs <= 1 /\ exc = "None"

\* the sign of "eta = elapsed * (100 - progress) / progress" for elapsed > 0
\* and progress > 0: that of 100 - progress, i.e. of total - end
EtaSign(end, total) ==
  IF total - end > 0 THEN 1 ELSE IF total - end = 0 THEN 0 ELSE -1

\* C22: with a known positive total duration, the progress a session computes
\* for a recorded segment is at most 100 and the remaining-time estimate
\* derived from it is not negative.
C22_Original ==
  (pc = "full" /\ total_duration > 0) =>
     /\ ProgressInt(segment.end, total_duration) <= 100
     /\ EtaSign(segment.end, total_duration) >= 0

\* ----------------------------------------- format_time and similarity alone
\* hours up to which format_time is applied
MaxHours == 2

\* minutes and seconds within the hour that are tried
FieldSamples == {0, 1, 9, 10, 59}

\* whole seconds given to format_time: non-negative ones and negative ones
SecondsInputs ==
  {h * 3600 + m * 60 + sec : h \in (0..MaxHours) \cup {10, 100},
                             m \in FieldSamples, sec \in FieldSamples}
  \cup {-1, -59, -60, -3600, -3661}

TxtAb == <<"a", "b">>

\* strings given to similarity, the empty one included
SimilarityTexts == {<<>>, TxtHello, TxtOlleh, TxtAbcd, TxtLetter, TxtWords, TxtAb}

NotCalled(name, inputs) ==
  [fn |-> name, args |-> inputs, done |-> FALSE, result |-> <<>>]

PureInit ==
  /\ SessionIdle
  /\ CleanerIdle /\ passes = <<>> /\ FilterIdle /\ ToFileIdle /\ WebIdle
  /\ \/ \E seconds \in SecondsInputs : fn_call = NotCalled("format_time", <<seconds>>)
     \/ \E s1 \in SimilarityTexts, s2 \in SimilarityTexts :
          fn_call = NotCalled("similarity", <<s1, s2>>)

\* one call format_time(seconds)
CallFormatTime ==
  /\ fn_call.fn = "format_time" /\ ~fn_call.done
  /\ fn_call' = [fn_call EXCEPT !.done = TRUE, !.result = format_time(fn_call.args[1])]
  /\ UNCHANGED <<vars, cleaner_vars, passes, call_text, verdict, to_file_vars, web_vars>>

\* one call similarity(s1, s2)
CallSimilarity ==
  /\ fn_call.fn = "similarity" /\ ~fn_call.done
  /\ fn_call' = [fn_call EXCEPT !.done = TRUE,
                                !.result = similarity(fn_call.args[1], fn_call.args[2])]
  /\ UNCHANGED <<vars, cleaner_vars, passes, call_text, verdict, to_file_vars, web_vars>>

PureNext == CallFormatTime \/ CallSimilarity

PureSpec == PureInit /\ [][PureNext]_<<vars, offline_vars>>

\* the pieces of t between its colons
RECURSIVE TimeFields(_)
TimeFields(t) ==
  LET k == Find(t, <<":">>, 1)
  IN IF k = 0 THEN <<t>>
     ELSE <<SubSeq(t, 1, k - 1)>> \o TimeFields(SubSeq(t, k + 1, Len(t)))

AllDigits(field) == field # <<>> /\ \A i \in DOMAIN field : IsDigit(field[i])

\* the number a string of digits denotes
RECURSIVE Num(_)
Num(field) ==
  IF field = <<>> THEN 0
  ELSE Num(SubSeq(field, 1, Len(field) - 1)) * 10
       + (CHOOSE d \in 0..9 : Digits[d + 1] = Last(field))

\* a number written with no leading zero
Unpadded(field) == Len(field) = 1 \/ field[1] # "0"

\* What the rendering of whole seconds looks like: below one hour two fields,
\* minutes (two digits if minutes_padded, else unpadded) and two-digit
\* seconds; from one hour on three fields, unpadded hours, two-digit minutes
\* and seconds; the fields add up to the input; a negative input gives the
\* marker "--:--", which has no digit.
TimeRendering(minutes_padded) ==
  (fn_call.fn = "format_time" /\ fn_call.done) =>
    LET seconds == fn_call.args[1]
        f == TimeFields(fn_call.result)
    IN /\ seconds < 0 =>
            /\ fn_call.result = <<"-", "-", ":", "-", "-">>
            /\ \A i \in DOMAIN fn_call.result : ~IsDigit(fn_call.result[i])
       /\ (0 <= seconds /\ seconds < 3600) =>
            /\ Len(f) = 2
            /\ AllDigits(f[1]) /\ AllDigits(f[2])
            /\ IF minutes_padded THEN Len(f[1]) = 2 ELSE Unpadded(f[1])
            /\ Len(f[2]) = 2
            /\ Num(f[1]) < 60 /\ Num(f[2]) < 60
            /\ Num(f[1]) * 60 + Num(f[2]) = seconds
       /\ seconds >= 3600 =>
            /\ Len(f) = 3
            /\ AllDigits(f[1]) /\ AllDigits(f[2]) /\ AllDigits(f[3])
            /\ Unpadded(f[1])
            /\ Len(f[2]) = 2 /\ Len(f[3]) = 2
            /\ Num(f[2]) < 60 /\ Num(f[3]) < 60
            /\ Num(f[1]) * 3600 + Num(f[2]) * 60 + Num(f[3]) = seconds

C27_Jaccard ==
  (fn_call.fn = "similarity" /\ fn_call.done) =>
    LET s1 == fn_call.args[1]
        s2 == fn_call.args[2]
        r == fn_call.result
        both == {c \in CharSet(s1) : \E i \in DOMAIN s2 : s2[i] = c}
        either == CharSet(s1) \cup CharSet(s2)
    IN /\ (s1 = <<>> \/ s2 = <<>>) => (r[1] = 0 /\ r[2] > 0)
       /\ (s1 # <<>> /\ s2 # <<>>) =>
             (r[1] = Cardinality(both) /\ r[2] = Cardinality(either))
       /\ (s1 # <<>> /\ s1 = s2) => r[1] = r[2]
       /\ r = similarity(s2, s1)
       /\ (s1 # <<>> /\ s2 # <<>> /\ CharSet(s1) = CharSet(s2)) =>
             (r[1] * 10 > r[2] * 8 /\ IsRepeatOf(s1, s2))

C27_Witness ==
  /\ fn_call.fn = "similarity" /\ fn_call.done
  /\ fn_call.args = <<TxtHello, TxtOlleh>>
  /\ fn_call.result = <<4, 4>>

\* ------------------------------------------------ the per-entry steps
\* C24: no entry that clean_entries returns has a content for which
\* is_likely_hallucination holds.
C24_Original ==
  \A k \in 2..Len(passes) :
    \A i \in DOMAIN passes[k] : ~is_likely_hallucination(passes[k][i].content)

\* C25: every entry that clean_entries returns has a content of 3 or more
\* characters after trimming.
C25_ReturnedContentLongEnough ==
  \A k \in 2..Len(passes) :
    \A i \in DOMAIN passes[k] : Len(strip(passes[k][i].content)) >= 3

\* an entry that passes the heuristic and is dropped for its cleaned length
C25_Witness ==
  /\ Len(passes) >= 2
  /\ Len(passes[1]) = 2
  /\ passes[1][1].content = TxtXyRun
  /\ ~is_likely_hallucination(TxtXyRun)
  /\ passes[1][2].content = TxtXyOnce
  /\ Len(passes[2]) = 1
  /\ passes[2][1].content = TxtXyOnce

\* occurrences of pattern in t, counted from the left without overlap, as
\* str.split counts them
RECURSIVE Occurrences(_, _)
Occurrences(t, pattern) ==
  LET k == Find(t, pattern, 1)
  IN IF k = 0 THEN 0
     ELSE 1 + Occurrences(SubSeq(t, k + Len(pattern), Len(t)), pattern)

\* the patterns detected in a list of entries
DetectedPatterns(entries) == detect_short_repeats(join(Contents(entries)), 5)

\* in the latest cleaning the short-pattern step rewrites the contents of the
\* cleaned list exactly when a detected pattern occurs in them at_least times
\* or more
ReconstructedFrom(at_least) ==
  Len(passes) >= 2 =>
    LET input == passes[Len(passes) - 1]
    IN \A pattern \in DetectedPatterns(input) :
         \A i \in DOMAIN input :
           LET content == input[i].content
               reduced == ReducePattern(content, pattern)
           IN IF Occurrences(content, pattern) >= at_least
              THEN /\ IsPrefix(pattern, reduced)
                   /\ Len(reduced) <= Len(content) - Len(pattern)
              ELSE reduced = content

\* C26 as stated: the content is reconstructed from 3 occurrences on and left
\* alone by this step with one or two.
C26_Original == ReconstructedFrom(3)

\* C26: the content is reconstructed, as the pattern followed by what is left
\* of the text after its first occurrence, when the pattern occurs in it at
\* least twice (split gives more than 2 parts); with no or one occurrence this
\* step leaves the content alone.
C26_ReconstructedFromTwo == ReconstructedFrom(2)

\* "xy a xy" next to a fivefold "xy" comes back as "xya"
C26_Witness ==
  /\ Len(passes) >= 2
  /\ Len(passes[1]) = 2
  /\ passes[1][1].content = TxtXyRun
  /\ passes[1][2].content = TxtXyTwice
  /\ Occurrences(TxtXyTwice, <<"x", "y">>) = 2
  /\ Len(passes[2]) = 1
  /\ passes[2][1].content = <<"x", "y", "a">>

\* -------------------------------------------------- what main writes
\* C28: a run of main that returns 0 has written to the disk exactly when
\* clean_entries returned fewer entries than were parsed: then the file holds
\* the header lines and the cleaned rows and, unless --no-backup is given, a
\* file at the backup path exists; with no entry removed every file is as it
\* was when the run began, also when a surviving content was changed.
C28_WritesIffRemoved ==
  (cpc = "returned" /\ returned = "0") =>
     LET removed == Len(main_entries) - Len(main_cleaned_entries)
     IN /\ removed >= 0
        /\ removed = 0 => disk = disk_before
        /\ removed > 0 =>
             /\ disk # disk_before
             /\ disk[args.file].lines
                  = main_header_lines \o WriteRows(main_cleaned_entries)
             /\ ~args.no_backup => disk[BackupPath(args.file)].exists
             /\ args.no_backup =>
                  \A path \in Paths \ {args.file} : disk[path] = disk_before[path]

\* a row "x x x y" is cleaned to "x y", no entry is removed, nothing is written
C28_Witness ==
  /\ cpc = "returned" /\ returned = "0"
  /\ Len(main_entries) = Len(main_cleaned_entries)
  /\ \E i \in DOMAIN main_entries :
        /\ main_entries[i].content = TxtWords
        /\ main_cleaned_entries[i].content = <<"x", " ", "y">>
  /\ disk = disk_before
  /\ ~disk[BackupPath(args.file)].exists

\* ------------------------------------------- recorded rows and the parser
\* C29: every row the session has appended to the time-indexed file matches
\* the row pattern of the cleaner's parser, whatever the start time.
C29_Original ==
  \A i \in DOMAIN time_file :
     time_file[i].kind = "row" => EntryMatch(time_file[i])

\* ------------------------------------------------------------------ web_ui
\* requests to /api/convert that are served
MaxThreads == 2

\* segments the engine yields to one conversion at most
MaxWebSegs == 2

\* audio files that exist on the server
AudioPaths == {"a.mp3", "b.mp3"}

\* the text the engine hears in segment n of the audio
HeardText(audio_path, n) == [audio |-> audio_path, n |-> n]

\* the module-level conversion_state as created on import (the fields
\* elapsed_time, current_text, model and start_time are left out)
InitialState ==
  [status |-> "idle", progress |-> 0, current_segment |-> 0, total_segments |-> 0,
   full_text |-> <<>>, error_message |-> "", file_name |-> "", segments |-> <<>>]

WebInit ==
  /\ SessionIdle
  /\ CleanerIdle /\ passes = <<>> /\ FilterIdle /\ ToFileIdle /\ PureIdle
  /\ conversion_state = InitialState
  /\ threads = <<>>

WebFrame == UNCHANGED <<vars, cleaner_vars, passes, call_text, verdict,
                        to_file_vars, fn_call>>

\* api_convert for a path that exists: a daemon thread running run_conversion
\* is started, whatever conversion_state holds
ApiConvert ==
  /\ Len(threads) < MaxThreads
  /\ \E audio_path \in AudioPaths :
       threads' = Append(threads, [pc |-> "start", audio_path |-> audio_path,
                                   segment_list |-> <<>>])
  /\ UNCHANGED conversion_state
  /\ WebFrame

\* run_conversion, first update_state: under the lock
BeginConversion(t) ==
  /\ t \in DOMAIN threads
  /\ threads[t].pc = "start"
  /\ conversion_state' =
       [conversion_state EXCEPT !.status = "loading_model", !.progress = 5,
                                !.file_name = threads[t].audio_path,
                                !.segments = <<>>, !.full_text = <<>>,
                                !.error_message = ""]
  /\ threads' = [threads EXCEPT ![t].pc = "load"]
  /\ WebFrame

\* the converter is built and update_state(status="transcribing", progress=10)
ModelLoaded(t) ==
  /\ t \in DOMAIN threads
  /\ threads[t].pc = "load"
  /\ conversion_state' =
       [conversion_state EXCEPT !.status = "transcribing", !.progress = 10]
  /\ threads' = [threads EXCEPT ![t].pc = "transcribe"]
  /\ WebFrame

\* min(10 + (i + 1) * 2, 90) for the segment numbered n = i + 1
SegmentProgress(n) == IF 10 + n * 2 < 90 THEN 10 + n * 2 ELSE 90

\* one iteration of "for i, segment in enumerate(segments_gen)"
WebSegment(t) ==
  /\ t \in DOMAIN threads
  /\ threads[t].pc = "transcribe"
  /\ Len(threads[t].segment_list) < MaxWebSegs
  /\ LET n == Len(threads[t].segment_list) + 1
         seg_data == [id |-> n, text |-> HeardText(threads[t].audio_path, n)]
         segment_list == Append(threads[t].segment_list, seg_data)
     IN /\ threads' = [threads EXCEPT ![t].segment_list = segment_list]
        /\ conversion_state' =
             [conversion_state EXCEPT !.current_segment = n,
                                      !.progress = SegmentProgress(n),
                                      !.segments = segment_list]
  /\ WebFrame

\* " ".join(full_text_parts): the texts of the segments in order
JoinedText(segment_list) == [k \in DOMAIN segment_list |-> segment_list[k].text]

\* the sequence ends: update_state(status="completed", ...)
WebComplete(t) ==
  /\ t \in DOMAIN threads
  /\ threads[t].pc = "transcribe"
  /\ conversion_state' =
       [conversion_state EXCEPT !.status = "completed", !.progress = 100,
                                !.full_text = JoinedText(threads[t].segment_list),
                                !.total_segments = Len(threads[t].segment_list),
                                !.segments = threads[t].segment_list]
  /\ threads' = [threads EXCEPT ![t].pc = "done"]
  /\ WebFrame

\* "except Exception as e": the converter or the engine raised
WebError(t) ==
  /\ t \in DOMAIN threads
  /\ threads[t].pc \in {"load", "transcribe"}
  /\ conversion_state' =
       [conversion_state EXCEPT !.status = "error", !.error_message = "error",
                                !.progress = 0]
  /\ threads' = [threads EXCEPT ![t].pc = "done"]
  /\ WebFrame

WebNext ==
  \/ ApiConvert
  \/ \E t \in 1..MaxThreads :
       \/ BeginConversion(t)
       \/ ModelLoaded(t)
       \/ WebSegment(t)
       \/ WebComplete(t)
       \/ WebError(t)

WebSpec == WebInit /\ [][WebNext]_<<vars, offline_vars>>

\* the status changes of one conversion after another: a conversion starts
\* from idle or from a finished state, loads, transcribes, and finishes
StatusSteps ==
  {<<"idle", "loading_model">>, <<"completed", "loading_model">>,
   <<"error", "loading_model">>, <<"loading_model", "transcribing">>,
   <<"loading_model", "error">>, <<"transcribing", "completed">>,
   <<"transcribing", "error">>}

\* the completed state shows the segments and the text of the file it names
CompletedOfOneConversion ==
  conversion_state.status = "completed" =>
     /\ \A k \in DOMAIN conversion_state.segments :
          conversion_state.segments[k].text.audio = conversion_state.file_name
     /\ conversion_state.full_text = JoinedText(conversion_state.segments)

\* C30: conversion_state always describes one conversion: its status moves
\* only along idle -> loading_model -> transcribing -> completed or error, one
\* conversion after another, and a completed state holds the file name,
\* segments and full text of the same conversion.
C30_Original ==
  /\ [](CompletedOfOneConversion)
  /\ [][conversion_state'.status # conversion_state.status =>
          <<conversion_state.status, conversion_state'.status>> \in StatusSteps]_web_vars
====
